---- MODULE Spec2Model ----
(***************************************************************************)
(* Model of the ADB calculator of src/main.py: the transaction loader      *)
(* (load_transactions_from_text), the balance projector                    *)
(* (generate_daily_balances) and the estimator                             *)
(* (calculate_adb_and_suggestion).                                         *)
(*                                                                         *)
(* Dates are proleptic Gregorian ordinals, as datetime.date.toordinal().   *)
(* Money is integral; a quotient (required average, current ADB,           *)
(* adjustment) is an exact fraction [num, den] in lowest terms, so float   *)
(* rounding is not modelled.                                               *)
(***************************************************************************)
EXTENDS Integers, Sequences, FiniteSets, TLC

VARIABLES
    today,            \* the wall clock's date, read by datetime.today()
    pc,               \* which call was made last
    text_data,        \* the pasted text: a sequence of lines, each a sequence of fields
    loaded,           \* what load_transactions_from_text returned
    start_balance,    \* the arguments of generate_daily_balances ...
    transactions,
    selected_year,
    selected_month,
    dates,            \* ... and what it returned
    daily_balances,
    last_call,        \* the latest call of calculate_adb_and_suggestion
    prev_call         \* an earlier call with the same dates, balances, year and month

vars == <<today, pc, text_data, loaded, start_balance, transactions,
          selected_year, selected_month, dates, daily_balances, last_call, prev_call>>

-----------------------------------------------------------------------------
(* Bounds *)

MaxTx == 2
MaxTxEst == 1
MaxTicks == 5
MaxLines == 3

-----------------------------------------------------------------------------
(* Arithmetic helpers *)

Min(a, b) == IF a <= b THEN a ELSE b

Abs(a) == IF a < 0 THEN -a ELSE a

RECURSIVE GCD(_, _)
GCD(a, b) == IF b = 0 THEN a ELSE GCD(b, a % b)

\* n / d as a fraction in lowest terms with a positive denominator (d # 0)
Rat(n, d) ==
    LET g == GCD(Abs(n), Abs(d))
        s == IF d < 0 THEN -1 ELSE 1
    IN  [num |-> (s * n) \div g, den |-> (s * d) \div g]

RatOfInt(n) == [num |-> n, den |-> 1]

RatSub(a, b) == Rat(a.num * b.den - b.num * a.den, a.den * b.den)

RatGE(a, b) == a.num * b.den >= b.num * a.den

RECURSIVE SumSeq(_)
SumSeq(s) == IF s = <<>> THEN 0 ELSE s[1] + SumSeq(Tail(s))

-----------------------------------------------------------------------------
(* The calendar: calendar.monthrange and datetime(y, m, d).date() *)

isleap(year) == year % 4 = 0 /\ (year % 100 # 0 \/ year % 400 = 0)

mdays == <<31, 28, 31, 30, 31, 30, 31, 31, 30, 31, 30, 31>>

ValidMonth(month) == month >= 1 /\ month <= 12

\* calendar.monthrange(year, month)[1], for a valid month
monthrange(year, month) ==
    mdays[month] + (IF month = 2 /\ isleap(year) THEN 1 ELSE 0)

days_before_year(year) ==
    LET y == year - 1 IN y * 365 + (y \div 4) - (y \div 100) + (y \div 400)

RECURSIVE days_before_month(_, _)
days_before_month(year, month) ==
    IF month = 1 THEN 0
    ELSE days_before_month(year, month - 1) + monthrange(year, month - 1)

\* datetime(year, month, day).date(), as an ordinal
DateOrd(year, month, day) ==
    days_before_year(year) + days_before_month(year, month) + day

-----------------------------------------------------------------------------
(* generate_daily_balances *)

EmptyMap == [d \in {} |-> 0]

\* transactions.get(current_day, 0.0)
Get(txs, day) == IF day \in DOMAIN txs THEN txs[day] ELSE 0

ApplyDayStale(current_balance, txs, current_day) ==
    current_balance + Get(txs, current_day - 1)

\* current_balance += transactions.get(current_day, 0.0)
ApplyDay(current_balance, txs, current_day) ==
    current_balance + Get(txs, current_day)

LoopEndShort(days_in_month) == days_in_month - 1

\* range(days_in_month): the offsets 0 .. LoopEnd - 1
LoopEnd(days_in_month) == days_in_month

RECURSIVE DayLoop(_, _, _, _, _, _, _)
DayLoop(first_day, txs, day_offset, days_in_month, current_balance, ds, bs) ==
    IF day_offset >= LoopEnd(days_in_month)
    THEN [dates |-> ds, daily_balances |-> bs]
    ELSE LET current_day == first_day + day_offset
             balance == ApplyDay(current_balance, txs, current_day)
         IN  DayLoop(first_day, txs, day_offset + 1, days_in_month, balance,
                     Append(ds, current_day), Append(bs, balance))

generate_daily_balances(start, txs, year, month) ==
    IF ~ValidMonth(month)
    THEN [dates |-> <<>>, daily_balances |-> <<>>]
    ELSE DayLoop(DateOrd(year, month, 1), txs, 0, monthrange(year, month),
                 start, <<>>, <<>>)

-----------------------------------------------------------------------------
(* calculate_adb_and_suggestion *)

\* datetime.today().date()
datetime_today == today

empty_result_stale ==
    [sum_of_balances_so_far |-> 0,
     total_required_balance_for_month |-> 0,
     remaining_balance_needed |-> 0,
     required_avg |-> RatOfInt(0),
     todays_balance |-> 0,
     adjustment |-> RatOfInt(0),
     future_days |-> 1,
     current_adb |-> RatOfInt(0),
     on_track |-> FALSE]

\* the record returned for empty dates or empty daily_balances
empty_result ==
    [sum_of_balances_so_far |-> 0,
     total_required_balance_for_month |-> 0,
     remaining_balance_needed |-> 0,
     required_avg |-> RatOfInt(0),
     todays_balance |-> 0,
     adjustment |-> RatOfInt(0),
     future_days |-> 0,
     current_adb |-> RatOfInt(0),
     on_track |-> FALSE]

effective_yesterday_incl(now, first_day, last_day) ==
    IF last_day < now THEN last_day
    ELSE IF first_day <= now /\ now <= last_day THEN now
    ELSE first_day - 1

\* the last date that counts as past
effective_yesterday(now, first_day, last_day) ==
    IF last_day < now THEN last_day
    ELSE IF first_day <= now /\ now <= last_day THEN now - 1
    ELSE first_day - 1

\* the indexes of zip(dates, daily_balances) whose date is <= yesterday
PastIndexes(ds, bs, yesterday) ==
    {i \in 1..Min(Len(ds), Len(bs)) : ds[i] <= yesterday}

RECURSIVE SumOver(_, _)
SumOver(bs, idx) ==
    IF idx = {} THEN 0
    ELSE LET i == CHOOSE j \in idx : \A k \in idx : j <= k
         IN  bs[i] + SumOver(bs, idx \ {i})

past_days_strict(ds, yesterday) ==
    Cardinality({i \in 1..Len(ds) : ds[i] < yesterday})

past_days(ds, yesterday) == Cardinality({i \in 1..Len(ds) : ds[i] <= yesterday})

future_days_excl(days_in_month, past_days_count) ==
    IF days_in_month - past_days_count > 0
    THEN days_in_month - past_days_count - 1 ELSE 0

future_days(days_in_month, past_days_count) == days_in_month - past_days_count

required_avg_whole_month(remaining, future_days_count, past_days_count, days_in_month) ==
    IF future_days_count > 0 THEN Rat(remaining, days_in_month) ELSE RatOfInt(0)

\* required_avg_from_effective_today
required_avg(remaining, future_days_count, past_days_count, days_in_month) ==
    IF future_days_count > 0 THEN Rat(remaining, future_days_count)
    ELSE IF past_days_count = days_in_month THEN RatOfInt(0)
    ELSE RatOfInt(0)

todays_balance_zero_before(ds, bs, effective_today, last_day, past_days_count) ==
    IF effective_today > last_day THEN bs[Len(bs)]
    ELSE IF past_days_count = 0 /\ datetime_today < ds[1] THEN 0
    ELSE bs[past_days_count + 1]

\* todays_balance_for_suggestion
todays_balance(ds, bs, effective_today, last_day, past_days_count) ==
    IF effective_today > last_day
    THEN (IF Len(bs) > 0 THEN bs[Len(bs)] ELSE 0)
    ELSE LET default == IF past_days_count < Len(bs) THEN bs[past_days_count + 1]
                        ELSE (IF Len(bs) > 0 THEN bs[Len(bs)] ELSE 0)
             hits == {i \in 1..Min(Len(ds), Len(bs)) : ds[i] = effective_today}
         IN  IF hits # {} THEN bs[CHOOSE i \in hits : \A k \in hits : i <= k]
             ELSE default

adjustment_always(required, todays, future_days_count) ==
    RatSub(required, RatOfInt(todays))

adjustment(required, todays, future_days_count) ==
    IF future_days_count > 0 THEN RatSub(required, RatOfInt(todays)) ELSE RatOfInt(0)

\* the body of calculate_adb_and_suggestion after the clock has been read
adb_result(ds, bs, target_adb, year, month, now) ==
    IF ds = <<>> \/ bs = <<>> THEN empty_result
    ELSE
    LET last_day == DateOrd(year, month, monthrange(year, month))
        first_day == DateOrd(year, month, 1)
        days_in_month == Len(ds)
        yesterday == effective_yesterday(now, first_day, last_day)
        past_days_count == past_days(ds, yesterday)
        future_days_count == future_days(days_in_month, past_days_count)
        sum_so_far == SumOver(bs, PastIndexes(ds, bs, yesterday))
        current_adb == IF days_in_month > 0 THEN Rat(SumSeq(bs), days_in_month)
                       ELSE RatOfInt(0)
        total_required == target_adb * days_in_month
        remaining == total_required - sum_so_far
        required == required_avg(remaining, future_days_count, past_days_count,
                                 days_in_month)
        effective_today == yesterday + 1
        todays == todays_balance(ds, bs, effective_today, last_day, past_days_count)
        adj == adjustment(required, todays, future_days_count)
        on_track == IF past_days_count = days_in_month
                    THEN RatGE(current_adb, RatOfInt(target_adb))
                    ELSE (IF future_days_count > 0
                          THEN RatGE(RatOfInt(todays), required) ELSE FALSE)
    IN  [sum_of_balances_so_far |-> sum_so_far,
         total_required_balance_for_month |-> total_required,
         remaining_balance_needed |-> remaining,
         required_avg |-> required,
         todays_balance |-> todays,
         adjustment |-> adj,
         future_days |-> future_days_count,
         past_days |-> past_days_count,
         current_adb |-> current_adb,
         days_in_month |-> days_in_month,
         on_track_for_target |-> on_track,
         effective_today_for_suggestion |-> effective_today]

calculate_accumulating(ds, bs, target_adb, year, month) ==
    LET r == adb_result(ds, bs, target_adb, year, month, datetime_today)
    IN  IF last_call.called
        THEN [r EXCEPT !.sum_of_balances_so_far =
                         @ + last_call.results.sum_of_balances_so_far]
        ELSE r

calculate_adb_and_suggestion(ds, bs, target_adb, year, month) ==
    adb_result(ds, bs, target_adb, year, month, datetime_today)

-----------------------------------------------------------------------------
(* load_transactions_from_text                                              *)
(* A text is a sequence of lines and a line the sequence of the fields that *)
(* its commas separate (the empty line has none); the fields are those of   *)
(* Lines, and the string functions are tabulated on them.              *)

\* str.strip() of a field
strip(field) == IF field = " " THEN "" ELSE field

\* 'date' in field.lower(), 'amount' in field.lower()
ContainsDate(field) == field = "date"

ContainsAmount(field) == field = "amount"

\* datetime.strptime(field, "%Y-%m-%d").date(): ok is FALSE for a ValueError
strptime(field) ==
    IF field = "2024-02-01" THEN [ok |-> TRUE, date |-> DateOrd(2024, 2, 1)]
    ELSE IF field = "2024-02-02" THEN [ok |-> TRUE, date |-> DateOrd(2024, 2, 2)]
    ELSE [ok |-> FALSE, date |-> 0]

\* float(field): ok is FALSE for a ValueError
float(field) ==
    IF field = "50" THEN [ok |-> TRUE, value |-> 50]
    ELSE IF field = "-30" THEN [ok |-> TRUE, value |-> -30]
    ELSE [ok |-> FALSE, value |-> 0]

HeaderLine == <<"date", "amount">>

\* a line of nothing but whitespace
IsSpaceLine(line) == line = <<>> \/ (Len(line) = 1 /\ strip(line[1]) = "")

RECURSIVE lstrip_lines(_)
lstrip_lines(text) ==
    IF text # <<>> /\ IsSpaceLine(text[1]) THEN lstrip_lines(Tail(text)) ELSE text

RECURSIVE rstrip_lines(_)
rstrip_lines(text) ==
    IF text # <<>> /\ IsSpaceLine(text[Len(text)])
    THEN rstrip_lines(SubSeq(text, 1, Len(text) - 1)) ELSE text

\* text_data.strip().splitlines(): the lines of nothing but whitespace at both
\* ends go (no other field of Lines starts or ends with whitespace)
strip_text(text) == rstrip_lines(lstrip_lines(text))

has_header(line) ==
    /\ \E k \in 1..Len(line) : ContainsDate(line[k])
    /\ \E k \in 1..Len(line) : ContainsAmount(line[k])

\* row[key] of csv.DictReader: a missing trailing field is None, an unknown key
\* raises KeyError
RowValue(fieldnames, row, key) ==
    LET ks == {k \in 1..Len(fieldnames) : fieldnames[k] = key}
    IN  IF ks = {} THEN [kind |-> "KeyError", val |-> ""]
        ELSE LET k == CHOOSE x \in ks : \A y \in ks : y <= x
             IN  IF k > Len(row) THEN [kind |-> "None", val |-> ""]
                 ELSE [kind |-> "str", val |-> row[k]]

AddTo(txs, date, amount) ==
    [d \in DOMAIN txs \cup {date} |-> Get(txs, d) + (IF d = date THEN amount ELSE 0)]

\* the rows csv.DictReader never yields: the empty ones
SkipsRow(fieldnames, row) == row = <<>>

\* the loop over the reader's rows; any error ends it with an empty map
RECURSIVE ReadRows(_, _, _)
ReadRows(fieldnames, rows, txs) ==
    IF rows = <<>> THEN [transactions |-> txs, error |-> "none"]
    ELSE
    LET row == rows[1]
        date_v == RowValue(fieldnames, row, "date")
        amount_v == RowValue(fieldnames, row, "amount")
        date_str == strip(date_v.val)
        amount_str == strip(amount_v.val)
    IN  IF SkipsRow(fieldnames, row) THEN ReadRows(fieldnames, Tail(rows), txs)
        ELSE IF date_v.kind = "KeyError"
             THEN [transactions |-> EmptyMap, error |-> "KeyError"]
        ELSE IF date_v.kind = "None"
             THEN [transactions |-> EmptyMap, error |-> "Exception"]
        ELSE IF amount_v.kind = "KeyError"
             THEN [transactions |-> EmptyMap, error |-> "KeyError"]
        ELSE IF amount_v.kind = "None"
             THEN [transactions |-> EmptyMap, error |-> "Exception"]
        ELSE IF date_str = "" \/ amount_str = ""
             THEN ReadRows(fieldnames, Tail(rows), txs)
        ELSE IF ~strptime(date_str).ok \/ ~float(amount_str).ok
             THEN [transactions |-> EmptyMap, error |-> "ValueError"]
        ELSE ReadRows(fieldnames, Tail(rows),
                      AddTo(txs, strptime(date_str).date, float(amount_str).value))

load_transactions_from_text(text) ==
    LET lines == strip_text(text)
    IN  IF lines = <<>> THEN [transactions |-> EmptyMap, error |-> "none"]
        ELSE IF has_header(lines[1])
             THEN ReadRows(lines[1], Tail(lines), EmptyMap)
        ELSE IF lines[1] # <<>> /\ strptime(strip(lines[1][1])).ok
             THEN ReadRows(HeaderLine, lines, EmptyMap)
        ELSE [transactions |-> EmptyMap, error |-> "format"]

-----------------------------------------------------------------------------
(* Inputs *)

Years == {2023, 2024}

\* 13 is what calendar.monthrange rejects with IllegalMonthError
Months == 1..13

EstMonths == {2, 3, 13}

StartBalances == {0, 100}

Amounts == {-30, 50}

Targets == {100, 250}

\* the day before the month, its first two days, its last day, the day after
TxDatesFor(year, month) ==
    IF ValidMonth(month)
    THEN LET first_day == DateOrd(year, month, 1)
             last_day == DateOrd(year, month, monthrange(year, month))
         IN  {first_day - 1, first_day, first_day + 1, last_day, last_day + 1}
    ELSE {DateOrd(year, 1, 1)}

TransactionMaps(year, month, max) ==
    UNION {[D -> Amounts] :
             D \in {S \in SUBSET TxDatesFor(year, month) : Cardinality(S) <= max}}

\* the lines a pasted text is made of: the header, an empty line, a line of
\* spaces, the comments of the pre-filled example, and rows of data
Lines ==
    {HeaderLine,
     <<>>,
     <<" ">>,
     <<"# note">>,
     <<"# Example: YYYY-MM-DD", "amount">>,
     <<"# 2024-02-01", "50">>,
     <<"2024-02-01", "50">>,
     <<"2024-02-01", "-30">>,
     <<"2024-02-02", "50">>}

Texts == UNION {[1..n -> Lines] : n \in 0..MaxLines}

ClockStart == DateOrd(2024, 2, 27)

NoCall == [called |-> FALSE, today |-> 0, target_adb |-> 0, results |-> empty_result]

NoLoad == [transactions |-> EmptyMap, error |-> "none"]

-----------------------------------------------------------------------------
(* Actions *)

\* the wall clock passes midnight
Tick ==
    /\ today < ClockStart + MaxTicks
    /\ today' = today + 1
    /\ UNCHANGED <<pc, text_data, loaded, start_balance, transactions, selected_year,
                   selected_month, dates, daily_balances, last_call, prev_call>>

\* the script is run again from its top: nothing of the run before is kept
Rerun ==
    /\ pc \in {"configured", "generated", "calculated"}
    /\ pc' = "idle"
    /\ start_balance' = 0
    /\ transactions' = EmptyMap
    /\ selected_year' = 2024
    /\ selected_month' = 2
    /\ dates' = <<>>
    /\ daily_balances' = <<>>
    /\ last_call' = NoCall
    /\ prev_call' = NoCall
    /\ UNCHANGED <<today, text_data, loaded>>

\* the sidebar's values are read
Configure ==
    /\ pc = "idle"
    /\ \E year \in Years, month \in EstMonths, start \in StartBalances :
         \E txs \in TransactionMaps(year, month, MaxTxEst) :
            /\ selected_year' = year
            /\ selected_month' = month
            /\ start_balance' = start
            /\ transactions' = txs
    /\ pc' = "configured"
    /\ UNCHANGED <<today, text_data, loaded, dates, daily_balances, last_call, prev_call>>

Generate ==
    /\ pc = "configured"
    /\ LET r == generate_daily_balances(start_balance, transactions,
                                        selected_year, selected_month)
       IN  /\ dates' = r.dates
           /\ daily_balances' = r.daily_balances
    /\ pc' = "generated"
    /\ UNCHANGED <<today, text_data, loaded, start_balance, transactions,
                   selected_year, selected_month, last_call, prev_call>>

Calculate ==
    /\ pc \in {"generated", "calculated"}
    /\ \E target_adb \in Targets :
         last_call' = [called |-> TRUE, today |-> today, target_adb |-> target_adb,
                       results |-> calculate_adb_and_suggestion(
                                      dates, daily_balances, target_adb,
                                      selected_year, selected_month)]
    /\ prev_call' \in (IF prev_call.called THEN {prev_call, last_call} ELSE {last_call})
    /\ pc' = "calculated"
    /\ UNCHANGED <<today, text_data, loaded, start_balance, transactions,
                   selected_year, selected_month, dates, daily_balances>>

Load ==
    /\ pc = "pasted"
    /\ loaded' = load_transactions_from_text(text_data)
    /\ pc' = "loaded"
    /\ UNCHANGED <<today, text_data, start_balance, transactions, selected_year,
                   selected_month, dates, daily_balances, last_call, prev_call>>

-----------------------------------------------------------------------------
(* Specifications *)

Init ==
    /\ today = ClockStart
    /\ pc = "idle"
    /\ text_data = <<>>
    /\ loaded = NoLoad
    /\ start_balance = 0
    /\ transactions = EmptyMap
    /\ selected_year = 2024
    /\ selected_month = 2
    /\ dates = <<>>
    /\ daily_balances = <<>>
    /\ last_call = NoCall
    /\ prev_call = NoCall

Next == Rerun \/ Configure \/ Generate \/ Calculate \/ Tick

\* the estimator's flow under a running clock
Spec == Init /\ [][Next]_vars

\* the projector applied to every input of the bounded sets
InitProject ==
    /\ today = ClockStart
    /\ pc = "configured"
    /\ text_data = <<>>
    /\ loaded = NoLoad
    /\ selected_year \in Years
    /\ selected_month \in Months
    /\ start_balance \in StartBalances
    /\ transactions \in TransactionMaps(selected_year, selected_month, MaxTx)
    /\ dates = <<>>
    /\ daily_balances = <<>>
    /\ last_call = NoCall
    /\ prev_call = NoCall

NextProject == Generate

SpecProject == InitProject /\ [][NextProject]_vars

\* the loader applied to every text of the bounded set
InitLoad ==
    /\ today = ClockStart
    /\ pc = "pasted"
    /\ text_data \in Texts
    /\ loaded = NoLoad
    /\ start_balance = 0
    /\ transactions = EmptyMap
    /\ selected_year = 2024
    /\ selected_month = 2
    /\ dates = <<>>
    /\ daily_balances = <<>>
    /\ last_call = NoCall
    /\ prev_call = NoCall

NextLoad == Load

SpecLoad == InitLoad /\ [][NextLoad]_vars

-----------------------------------------------------------------------------
(* Claims about generate_daily_balances, checked under SpecProject *)

FirstDay == DateOrd(selected_year, selected_month, 1)

LastDay == DateOrd(selected_year, selected_month,
                   monthrange(selected_year, selected_month))

Projected == pc = "generated" /\ ValidMonth(selected_month)

RECURSIVE SumMap(_, _)
SumMap(txs, D) ==
    IF D = {} THEN 0
    ELSE LET d == CHOOSE x \in D : TRUE IN txs[d] + SumMap(txs, D \ {d})

\* the amounts dated from the first day of the month through day
AmountsThrough(day) ==
    SumMap(transactions, {d \in DOMAIN transactions : FirstDay <= d /\ d <= day})

\* C1: each day's balance is start_balance plus the amounts dated from day 1 of
\* the month through that day; the first point is start_balance plus the amount
\* dated on day 1; amounts dated outside the month change no point.
C1_RunningBalance ==
    Projected =>
        /\ Len(daily_balances) = Len(dates)
        /\ \A i \in 1..Len(dates) :
              daily_balances[i] = start_balance + AmountsThrough(FirstDay + i - 1)
        /\ Len(daily_balances) >= 1
              => daily_balances[1] = start_balance + Get(transactions, FirstDay)
        /\ LET inside == {d \in DOMAIN transactions : FirstDay <= d /\ d <= LastDay}
           IN  daily_balances =
                  generate_daily_balances(start_balance,
                                          [d \in inside |-> transactions[d]],
                                          selected_year, selected_month).daily_balances

\* a month projected with an amount on its first day and one dated outside it
C1_Witness ==
    /\ Projected
    /\ FirstDay \in DOMAIN transactions
    /\ \E d \in DOMAIN transactions : d < FirstDay \/ d > LastDay
    /\ daily_balances[1] # start_balance
    /\ daily_balances[Len(daily_balances)] = daily_balances[1]

NextMonthFirstDay ==
    IF selected_month = 12 THEN DateOrd(selected_year + 1, 1, 1)
    ELSE DateOrd(selected_year, selected_month + 1, 1)

\* C2: for a valid (year, month) the projector returns exactly days_in_month
\* points, the i-th dated day i of the month: strictly ascending, no gaps, from
\* the first day to the day before the next month's first.
C2_OnePointPerDay ==
    Projected =>
        /\ Len(dates) = monthrange(selected_year, selected_month)
        /\ Len(daily_balances) = Len(dates)
        /\ \A i \in 1..Len(dates) : dates[i] = DateOrd(selected_year, selected_month, i)
        /\ \A i \in 1..(Len(dates) - 1) : dates[i + 1] = dates[i] + 1
        /\ Len(dates) >= 1
        /\ dates[1] = FirstDay
        /\ dates[Len(dates)] + 1 = NextMonthFirstDay

\* February of a leap year projected: 29 points
C2_Witness ==
    /\ Projected
    /\ selected_month = 2
    /\ isleap(selected_year)
    /\ Len(dates) = 29

-----------------------------------------------------------------------------
(* Claims about calculate_adb_and_suggestion, checked under Spec *)

Max(a, b) == IF a >= b THEN a ELSE b

\* the latest call got a balance sequence of the selected month
Estimated == last_call.called /\ dates # <<>> /\ daily_balances # <<>>

\* the wall clock's date when the latest call read it
Now == last_call.today

Result == last_call.results

\* the balance recorded for a date of the month
BalanceOn(day) == daily_balances[day - FirstDay + 1]

\* C3: sum_of_balances_so_far is the sum of the balances of the dates in
\* [first_day, min(today - 1, last_day)], whether today is before, inside or
\* after the month; today's own balance is not part of it.
C3_SumStrictlyBeforeToday ==
    Estimated =>
        LET upto == Min(Now - 1, LastDay)
            count == Max(0, upto - FirstDay + 1)
        IN  Result.sum_of_balances_so_far = SumSeq(SubSeq(daily_balances, 1, count))

\* today is inside the month, after its first day, with a non-zero balance today
C3_Witness ==
    /\ Estimated
    /\ FirstDay < Now
    /\ Now <= LastDay
    /\ BalanceOn(Now) # 0
    /\ Result.sum_of_balances_so_far # 0

\* C4 as claimed: future_days_count is max(0, (last_day - today).days + 1) when
\* today <= last_day, and 0 when today > last_day.
C4_Claimed ==
    Estimated =>
        Result.future_days = (IF Now <= LastDay THEN Max(0, LastDay - Now + 1) ELSE 0)

\* C4 as amended: future_days_count is (last_day - today).days + 1 while today is
\* inside the month (today itself is a remaining day), the whole month's length
\* while today is before the first day, and 0 once today is after the last day.
C4_FutureDaysClipped ==
    Estimated =>
        Result.future_days =
            (IF Now > LastDay THEN 0
             ELSE IF Now < FirstDay THEN Len(dates)
             ELSE LastDay - Now + 1)

\* a month that has not begun: every day of it remains
C4_Witness ==
    /\ Estimated
    /\ Now < FirstDay
    /\ Result.future_days = LastDay - FirstDay + 1

\* C5: adjustment is required_avg - todays_balance when future_days > 0 and 0
\* otherwise; once today is after the last day the month has passed (no future
\* days, every day past) and adjustment is 0.
C5_AdjustmentOnlyWithFutureDays ==
    last_call.called =>
        /\ Result.future_days > 0 =>
              Result.adjustment =
                  RatSub(Result.required_avg, RatOfInt(Result.todays_balance))
        /\ Result.future_days <= 0 => Result.adjustment = RatOfInt(0)
        /\ (Estimated /\ Now > LastDay) =>
              /\ Result.future_days = 0
              /\ Result.past_days = Result.days_in_month
              /\ Result.adjustment = RatOfInt(0)

\* a passed month whose last balance is not zero and misses the target
C5_Witness ==
    /\ Estimated
    /\ Now > LastDay
    /\ Result.todays_balance # 0
    /\ ~Result.on_track_for_target
    /\ Result.adjustment = RatOfInt(0)

\* C6 as claimed: todays_balance is the balance dated today inside the month, the
\* last balance after the month, and 0 before the month.
C6_Claimed ==
    Estimated =>
        Result.todays_balance =
            (IF Now > LastDay THEN daily_balances[Len(daily_balances)]
             ELSE IF Now < FirstDay THEN 0
             ELSE BalanceOn(Now))

\* C6 as amended: before the month, todays_balance is the balance of the first
\* day of the month.
C6_TodaysBalance ==
    Estimated =>
        Result.todays_balance =
            (IF Now > LastDay THEN daily_balances[Len(daily_balances)]
             ELSE IF Now < FirstDay THEN daily_balances[1]
             ELSE BalanceOn(Now))

\* a month that has not begun, whose first balance is not zero
C6_Witness ==
    /\ Estimated
    /\ Now < FirstDay
    /\ daily_balances[1] # 0
    /\ Result.todays_balance = daily_balances[1]

\* C7: on the last day of the month future_days is 1 and adjustment is
\* target_adb * days_in_month - (the balances of all days but today) - (today's).
C7_LastDay ==
    (Estimated /\ Now = LastDay) =>
        /\ Result.future_days = 1
        /\ Result.adjustment =
              RatOfInt(last_call.target_adb * Len(dates)
                       - SumSeq(SubSeq(daily_balances, 1, Len(daily_balances) - 1))
                       - daily_balances[Len(daily_balances)])

\* today is the last day of the month and an adjustment is suggested
C7_Witness ==
    /\ Estimated
    /\ Now = LastDay
    /\ Result.future_days = 1
    /\ Result.adjustment.num # 0
    /\ daily_balances[Len(daily_balances)] # daily_balances[1]

\* both calls got the same dates, balances, year and month; the same target too
SameArguments == 
    /\ prev_call.called
    /\ last_call.called
    /\ prev_call.target_adb = last_call.target_adb

C9_EmptyInputAllZero ==
    (last_call.called /\ (dates = <<>> \/ daily_balances = <<>>)) =>
        /\ Result.sum_of_balances_so_far = 0
        /\ Result.total_required_balance_for_month = 0
        /\ Result.remaining_balance_needed = 0
        /\ Result.required_avg = RatOfInt(0)
        /\ Result.todays_balance = 0
        /\ Result.adjustment = RatOfInt(0)
        /\ Result.future_days = 0
        /\ Result.current_adb = RatOfInt(0)

\* the estimator was called with what the projector returns for month 13
C9_Witness ==
    /\ last_call.called
    /\ pc = "calculated"
    /\ ~ValidMonth(selected_month)
    /\ dates = <<>>
    /\ last_call.target_adb > 0

\* C11: the day counts partition the month: 0 <= past_days <= days_in_month,
\* future_days >= 0 and past_days + future_days = days_in_month; past_days is
\* days_in_month exactly when today is after the last day, and 0 exactly when
\* today is on or before the first day.
C11_DayCountsPartition ==
    Estimated =>
        /\ Result.days_in_month = monthrange(selected_year, selected_month)
        /\ 0 <= Result.past_days
        /\ Result.past_days <= Result.days_in_month
        /\ Result.future_days >= 0
        /\ Result.past_days + Result.future_days = Result.days_in_month
        /\ (Result.past_days = Result.days_in_month) <=> (Now > LastDay)
        /\ (Result.past_days = 0) <=> (Now <= FirstDay)

\* today is inside the month: some days are past and some remain
C11_Witness ==
    /\ Estimated
    /\ FirstDay < Now
    /\ Now < LastDay
    /\ Result.past_days = Now - FirstDay
    /\ Result.future_days = LastDay - Now + 1
    /\ Result.future_days > 1

-----------------------------------------------------------------------------
(* Claims about load_transactions_from_text, checked under SpecLoad *)

IsCommentLine(line) == line # <<>> /\ line[1] \in {"# note", "# Example: YYYY-MM-DD", "# 2024-02-01"}

IsDataLine(line) ==
    /\ Len(line) = 2
    /\ strptime(line[1]).ok
    /\ float(line[2]).ok

\* a header, if any, on the first line; then empty lines, comments and rows
IsCommentedText(text) ==
    \A k \in 1..Len(text) :
        \/ text[k] = <<>>
        \/ IsCommentLine(text[k])
        \/ IsDataLine(text[k])
        \/ (k = 1 /\ text[k] = HeaderLine)

\* the per-date sum of the amounts of the rows of data
RECURSIVE SumOfRows(_)
SumOfRows(text) ==
    IF text = <<>> THEN EmptyMap
    ELSE LET rest == SumOfRows(Tail(text))
         IN  IF IsDataLine(text[1])
             THEN AddTo(rest, strptime(text[1][1]).date, float(text[1][2]).value)
             ELSE rest

\* C10: empty lines and lines starting with '#' are ignored: the map returned is
\* the per-date sum of the amounts of the remaining rows.
C10_CommentsIgnored ==
    (pc = "loaded" /\ IsCommentedText(text_data))
        => loaded.transactions = SumOfRows(text_data)

====
